---- MODULE Spec2Model ----
(***************************************************************************)
(* Model of the MDKP repair heuristics.                                    *)
(*   src/algo_de_réparation.py : read_instances, repair_solution           *)
(*   src/main.py               : parse_instance, surrogate_relaxation,     *)
(*                               glouton_heuristic, repair_heuristic       *)
(* Python indices are kept 0-based: a vector of length n is a function on  *)
(* 0..n-1.  File lines are sequences of tokens.                            *)
(***************************************************************************)
EXTENDS Integers, Sequences, FiniteSets

\* ---- bounds of the explored inputs ----
MaxN == 3
MaxM == 2
MaxWeight == 1
MaxCap == 2
MaxProfit == 2
MaxTokens == 2
MaxBodyLines == 4

VARIABLES
    policy,         \* "A" = repair_solution, "B" = repair_heuristic
    n_projects,     \* instance["n_projects"]
    m_resources,    \* instance["m_resources"]
    profits,        \* instance["gains"] / instance["profits"]
    weights,        \* instance["resources_consumed"], weights[i][j]
    capacities,     \* instance["resources_available"]
    input,          \* the selection handed to repair
    sorted_idx,     \* rank order, best to worst (repair_heuristic only)
    solution,       \* the selection being repaired
    idx,            \* repair_heuristic's backward scan position
    iters,          \* number of completed iterations of the while loop
    pc,             \* control point of the function being run
    surrogate_weights,  \* surrogate_relaxation: per-project sum of weights
    capacity,       \* glouton_heuristic: remaining surrogate capacity
    pos,            \* glouton_heuristic: position of the fill loop in sorted_idx
    parser,         \* "read_instances" | "parse_instance"
    lines,          \* the non-empty lines of the file, each a list of tokens
    current_line,   \* current_line / index: 0-based pointer into lines
    remaining,      \* iterations left of "for _ in range(num_instances)"
    gains,          \* gains / profits of the instance being read
    resources_consumed,   \* rows read so far
    instances       \* the instances appended so far

gloutonVars == <<surrogate_weights, capacity, pos>>

parserVars == <<parser, lines, current_line, remaining, gains,
                resources_consumed, instances>>

vars == <<policy, n_projects, m_resources, profits, weights, capacities,
          input, sorted_idx, solution, idx, iters, pc, gloutonVars,
          parserVars>>

\* what the repair and glouton functions never touch
NoParser ==
    /\ parser = "none"
    /\ lines = <<>>
    /\ current_line = 0
    /\ remaining = 0
    /\ gains = <<>>
    /\ resources_consumed = <<>>
    /\ instances = <<>>

instanceVars == <<policy, n_projects, m_resources, profits, weights,
                  capacities, input, sorted_idx>>

\* ---- helpers ----
Projects(n) == 0 .. (n - 1)
Resources(m) == 0 .. (m - 1)

RECURSIVE DotRow(_, _, _)
\* sum over j < k of row[j] * sol[j]  (one component of np.dot)
DotRow(row, sol, k) ==
    IF k = 0 THEN 0 ELSE DotRow(row, sol, k - 1) + row[k - 1] * sol[k - 1]

\* np.dot(resource_consumption, solution)
Consumption(sol) ==
    [i \in Resources(m_resources) |-> DotRow(weights[i], sol, n_projects)]

\* faulty variant: a resource used exactly to capacity counts as violated
FeasibleStrict(sol) ==
    \A i \in Resources(m_resources) : Consumption(sol)[i] < capacities[i]

\* faulty variant: only the first resource is compared
FeasibleFirstResource(sol) == Consumption(sol)[0] <= capacities[0]

\* np.all(current_consumption <= resource_availability)
\* (equivalently: not np.any(total_consumption > resources_available))
Feasible(sol) ==
    \A i \in Resources(m_resources) : Consumption(sol)[i] <= capacities[i]

RECURSIVE ColumnSum(_, _)
\* np.sum(resource_consumption[:, project]) over the first k resources
ColumnSum(project, k) ==
    IF k = 0 THEN 0 ELSE ColumnSum(project, k - 1) + weights[k - 1][project]

\* faulty variant: no guard against a zero total consumption (x/0 then
\* compares above every ratio for x > 0, like inf)
RatioNoGuard(project) ==
    <<profits[project], ColumnSum(project, m_resources)>>

\* ratio = gains[project] / total_consumption if total_consumption > 0 else 0
\* kept as an exact fraction <<numerator, denominator>>, denominator > 0
Ratio(project) ==
    LET total_consumption == ColumnSum(project, m_resources)
    IN  IF total_consumption > 0 THEN <<profits[project], total_consumption>>
        ELSE <<0, 1>>

\* a < b on fractions with positive denominators
RatioLess(a, b) == a[1] * b[2] < b[1] * a[2]

\* faulty variant: every project is a removal candidate
SelectedProjectsAll(sol) == Projects(n_projects)

\* np.where(solution == 1)[0]
SelectedProjects(sol) == {j \in Projects(n_projects) : sol[j] = 1}

\* faulty variant: the last entry of minimal ratio
WorstProjectLastMin(sol) ==
    CHOOSE j \in SelectedProjects(sol) :
        \A k \in SelectedProjects(sol) :
            /\ ~RatioLess(Ratio(k), Ratio(j))
            /\ (k > j => RatioLess(Ratio(j), Ratio(k)))

\* min(ratios, key=lambda x: x[1])[0]: the first entry, in ascending project
\* order, whose ratio is minimal
WorstProject(sol) ==
    CHOOSE j \in SelectedProjects(sol) :
        \A k \in SelectedProjects(sol) :
            /\ ~RatioLess(Ratio(k), Ratio(j))
            /\ (k < j => RatioLess(Ratio(j), Ratio(k)))

\* faulty variant: the entry is toggled
Flip(sol, j) == [sol EXCEPT ![j] = 1 - sol[j]]

\* solution[worst_project] = 0  /  solution[bad_ratio_idx] = 0
Deselect(sol, j) == [sol EXCEPT ![j] = 0]

\* faulty variant: the scan starts at the best end
RankAtFront(order, n, i) == order[i - 1]

\* sorted_idx[-idx]: the idx-th entry counted from the worst end
RankAt(order, n, i) == order[n - i]

RankOrders(n) ==
    {f \in [Projects(n) -> Projects(n)] :
        \A a, b \in Projects(n) : a # b => f[a] # f[b]}

Identity(n) == [j \in Projects(n) |-> j]

\* ---- initial states: an instance with non-negative data, a binary
\* ---- selection and, for repair_heuristic, a rank order.
\* repair_solution takes no rank order and repair_heuristic never reads the
\* profits, so each is fixed for the policy that ignores it.
Init ==
    /\ policy \in {"A", "B"}
    /\ n_projects \in 1 .. MaxN
    /\ m_resources \in 1 .. MaxM
    /\ weights \in [Resources(m_resources) ->
                      [Projects(n_projects) -> 0 .. MaxWeight]]
    /\ capacities \in [Resources(m_resources) -> 0 .. MaxCap]
    /\ input \in [Projects(n_projects) -> {0, 1}]
    /\ IF policy = "A"
       THEN /\ profits \in [Projects(n_projects) -> 0 .. MaxProfit]
            /\ sorted_idx = Identity(n_projects)
       ELSE /\ profits = [j \in Projects(n_projects) |-> 0]
            /\ sorted_idx \in RankOrders(n_projects)
    /\ solution = input
    /\ idx = 1
    /\ iters = 0
    /\ pc = "loop"
    /\ surrogate_weights = <<>>
    /\ capacity = 0
    /\ pos = 0
    /\ NoParser

\* ---- repair_solution (Policy A): one iteration of the while loop ----
RepairSolutionStep ==
    /\ pc = "loop"
    /\ policy = "A"
    /\ ~Feasible(solution)
    /\ IF SelectedProjects(solution) = {}
       THEN \* min() of an empty list raises ValueError
            /\ pc' = "error"
            /\ UNCHANGED <<solution, iters>>
       ELSE /\ solution' = Deselect(solution, WorstProject(solution))
            /\ iters' = iters + 1
            /\ pc' = "loop"
    /\ UNCHANGED <<instanceVars, idx, gloutonVars, parserVars>>

\* ---- repair_solution: loop exit, return solution ----
RepairSolutionReturn ==
    /\ pc = "loop"
    /\ policy = "A"
    /\ Feasible(solution)
    /\ pc' = "done"
    /\ UNCHANGED <<instanceVars, solution, idx, iters, gloutonVars, parserVars>>

\* ---- repair_heuristic (Policy B): one iteration of the while loop ----
\* sorted_idx[-idx] is sorted_idx[n - idx]; it raises IndexError for idx > n
RepairHeuristicStep ==
    /\ pc = "loop"
    /\ policy = "B"
    /\ ~Feasible(solution)
    /\ IF idx > n_projects
       THEN /\ pc' = "error"
            /\ UNCHANGED <<solution, idx, iters>>
       ELSE LET first == RankAt(sorted_idx, n_projects, idx)
                idx2 == IF solution[first] = 0 THEN idx + 1 ELSE idx
            IN  IF idx2 > n_projects
                THEN /\ pc' = "error"
                     /\ idx' = idx2
                     /\ UNCHANGED <<solution, iters>>
                ELSE LET bad_ratio_idx == RankAt(sorted_idx, n_projects, idx2)
                     IN  /\ solution' = Deselect(solution, bad_ratio_idx)
                         /\ idx' = idx2 + 1
                         /\ iters' = iters + 1
                         /\ pc' = "loop"
    /\ UNCHANGED <<instanceVars, gloutonVars, parserVars>>

\* ---- repair_heuristic: loop exit, return solution ----
RepairHeuristicReturn ==
    /\ pc = "loop"
    /\ policy = "B"
    /\ Feasible(solution)
    /\ pc' = "done"
    /\ UNCHANGED <<instanceVars, solution, idx, iters, gloutonVars, parserVars>>

Next ==
    \/ RepairSolutionStep
    \/ RepairSolutionReturn
    \/ RepairHeuristicStep
    \/ RepairHeuristicReturn

Spec == Init /\ [][Next]_vars

(***************************************************************************)
(* src/main.py: surrogate_relaxation and glouton_heuristic.                *)
(***************************************************************************)
RECURSIVE SumCapacities(_)
\* sum(instance["resources_available"]) over the first k resources
SumCapacities(k) ==
    IF k = 0 THEN 0 ELSE SumCapacities(k - 1) + capacities[k - 1]

\* surrogate_weights[j] = sum(resources_consumed[i][j] for i in range(m))
SurrogateWeights ==
    [j \in Projects(n_projects) |-> ColumnSum(j, m_resources)]

\* ratios = profits / surrogate_weights, numpy float division of
\* non-negative numbers: x/0 is inf for x > 0 and nan for x = 0.
\* -ratios is then -inf, a finite number <= 0, or nan.
KeyClass(j) ==
    IF surrogate_weights[j] > 0 THEN "finite"
    ELSE IF profits[j] > 0 THEN "neginf" ELSE "nan"

\* -ratios[a] sorts strictly before -ratios[b] in np.argsort: -inf first,
\* finite values ascending, nan last
KeyLess(a, b) ==
    \/ KeyClass(a) = "neginf" /\ KeyClass(b) # "neginf"
    \/ KeyClass(a) = "finite" /\ KeyClass(b) = "nan"
    \/ /\ KeyClass(a) = "finite"
       /\ KeyClass(b) = "finite"
       /\ profits[a] * surrogate_weights[b] > profits[b] * surrogate_weights[a]

\* np.argsort(-ratios): a permutation that sorts the keys.  The default sort
\* kind is not stable, so the order of equal keys depends on the build.
ArgSorts ==
    {f \in RankOrders(n_projects) :
        \A a, b \in Projects(n_projects) : a < b => ~KeyLess(f[b], f[a])}

InitGlouton ==
    /\ policy = "glouton"
    /\ n_projects \in 1 .. MaxN
    /\ m_resources \in 1 .. MaxM
    /\ weights \in [Resources(m_resources) ->
                      [Projects(n_projects) -> 0 .. MaxWeight]]
    /\ capacities \in [Resources(m_resources) -> 0 .. MaxCap]
    /\ profits \in [Projects(n_projects) -> 0 .. MaxProfit]
    /\ input = <<>>
    /\ sorted_idx = <<>>
    /\ solution = <<>>
    /\ idx = 1
    /\ iters = 0
    /\ pc = "relax"
    /\ surrogate_weights = <<>>
    /\ capacity = 0
    /\ pos = 0
    /\ NoParser

\* ---- surrogate_relaxation ----
SurrogateRelaxation ==
    /\ pc = "relax"
    /\ surrogate_weights' = SurrogateWeights
    /\ capacity' = SumCapacities(m_resources)
    /\ pc' = "sort"
    /\ UNCHANGED <<instanceVars, solution, idx, iters, pos, parserVars>>

\* ---- glouton_heuristic: ratios, argsort, solution = zeros ----
GloutonSort ==
    /\ pc = "sort"
    /\ sorted_idx' \in ArgSorts
    /\ solution' = [j \in Projects(n_projects) |-> 0]
    /\ pos' = 0
    /\ pc' = "fill"
    /\ UNCHANGED <<policy, n_projects, m_resources, profits, weights,
                   capacities, input, idx, iters, surrogate_weights, capacity,
                   parserVars>>

\* ---- glouton_heuristic: one iteration of "for idx in sorted_idx" ----
GloutonFillStep ==
    /\ pc = "fill"
    /\ pos < n_projects
    /\ LET j == sorted_idx[pos]
       IN  IF capacity >= surrogate_weights[j]
           THEN /\ solution' = [solution EXCEPT ![j] = 1]
                /\ capacity' = capacity - surrogate_weights[j]
           ELSE UNCHANGED <<solution, capacity>>
    /\ pos' = pos + 1
    /\ UNCHANGED <<instanceVars, idx, iters, pc, surrogate_weights, parserVars>>

\* ---- glouton_heuristic: return solution, sorted_idx ----
GloutonReturn ==
    /\ pc = "fill"
    /\ pos = n_projects
    /\ pc' = "done"
    /\ UNCHANGED <<instanceVars, solution, idx, iters, gloutonVars, parserVars>>

NextGlouton ==
    \/ SurrogateRelaxation
    \/ GloutonSort
    \/ GloutonFillStep
    \/ GloutonReturn

SpecGlouton == InitGlouton /\ [][NextGlouton]_vars

(***************************************************************************)
(* src/algo_de_réparation.py: read_instances; src/main.py: parse_instance. *)
(* A token is a numeral.  float() accepts every numeral; int() accepts     *)
(* only the numerals without a fractional part.  A float is kept as twice  *)
(* its value, so that 1.5 is the integer 3.                                *)
(***************************************************************************)
Tokens == {"1", "2", "1.5"}

\* float(token), in halves
FloatOf(tok) == CASE tok = "1" -> 2 [] tok = "2" -> 4 [] tok = "1.5" -> 3

\* int(token) raises ValueError on a numeral with a fractional part
IntOk(tok) == tok \in {"1", "2"}

\* int(token)
IntOf(tok) == CASE tok = "1" -> 1 [] tok = "2" -> 2

\* int(float(token)): truncation
IntOfFloat(tok) == CASE tok = "1" -> 1 [] tok = "2" -> 2 [] tok = "1.5" -> 1

\* list(map(float, line.split())) / list(map(int, line.split()))
Convert(line, conv) ==
    [k \in 1 .. Len(line) |->
        IF conv = "float" THEN FloatOf(line[k]) ELSE IntOf(line[k])]

\* map(int, ...) raises ValueError on some token of the line
Convertible(line, conv) ==
    conv = "float" \/ \A k \in 1 .. Len(line) : IntOk(line[k])

Failure == [ok |-> FALSE, acc |-> <<>>, cl |-> 0]

RECURSIVE ExtendWhileShort(_, _, _, _)
\* while len(acc) < want: acc.extend(map(conv, lines[cl].split())); cl += 1
\* lines[cl] past the end raises IndexError (parse_instance raises it itself)
ExtendWhileShort(acc, cl, want, conv) ==
    IF Len(acc) >= want THEN [ok |-> TRUE, acc |-> acc, cl |-> cl]
    ELSE IF cl >= Len(lines) THEN Failure
    ELSE IF ~Convertible(lines[cl + 1], conv) THEN Failure
    ELSE ExtendWhileShort(acc \o Convert(lines[cl + 1], conv), cl + 1, want, conv)

\* x = list(map(conv, lines[cl].split())); cl += 1
ReadLine(cl, conv) ==
    IF cl >= Len(lines) THEN Failure
    ELSE IF ~Convertible(lines[cl + 1], conv) THEN Failure
    ELSE [ok |-> TRUE, acc |-> Convert(lines[cl + 1], conv), cl |-> cl + 1]

\* parse_instance reads one line unconditionally and then extends it while
\* it is short; read_instances starts from the empty list
ReadField(cl, want, conv) ==
    IF parser = "parse_instance"
    THEN LET first == ReadLine(cl, conv)
         IN  IF first.ok THEN ExtendWhileShort(first.acc, first.cl, want, conv)
             ELSE Failure
    ELSE ExtendWhileShort(<<>>, cl, want, conv)

BodyLines == UNION {[1 .. k -> Tokens] : k \in 1 .. MaxTokens}

Bodies == UNION {[1 .. k -> BodyLines] : k \in 0 .. MaxBodyLines}

Headers == {<<n, m, "1">> : n \in Tokens, m \in {"1", "2"}}

InitParse ==
    /\ parser \in {"read_instances", "parse_instance"}
    /\ \E h \in Headers, body \in Bodies : lines = <<<<"1">>, h>> \o body
    /\ current_line = 0
    /\ remaining = 0
    /\ gains = <<>>
    /\ resources_consumed = <<>>
    /\ instances = <<>>
    /\ policy = "parse"
    /\ n_projects = 0
    /\ m_resources = 0
    /\ profits = <<>>
    /\ weights = <<>>
    /\ capacities = <<>>
    /\ input = <<>>
    /\ sorted_idx = <<>>
    /\ solution = <<>>
    /\ idx = 1
    /\ iters = 0
    /\ pc = "count"
    /\ surrogate_weights = <<>>
    /\ capacity = 0
    /\ pos = 0

parseState == <<policy, profits, weights, capacities, input, sorted_idx,
                solution, idx, iters, gloutonVars, parser, lines>>

\* ---- num_instances = int(lines[0]); current_line = 1 ----
ReadCount ==
    /\ pc = "count"
    /\ IF Len(lines) = 0 \/ Len(lines[1]) # 1 \/ ~IntOk(lines[1][1])
       THEN /\ pc' = "error"
            /\ UNCHANGED <<remaining, current_line>>
       ELSE /\ remaining' = IntOf(lines[1][1])
            /\ current_line' = 1
            /\ pc' = IF IntOf(lines[1][1]) = 0 THEN "done" ELSE "header"
    /\ UNCHANGED <<parseState, n_projects, m_resources, gains,
                   resources_consumed, instances>>

\* ---- the header line: n_projects m_resources optimal_value ----
\* read_instances: map(float, ...), exactly 3 parts, then int(n_projects)
\* parse_instance: unpacking of exactly 3 tokens, then int(token)
ReadHeader ==
    /\ pc = "header"
    /\ IF current_line >= Len(lines)
       THEN /\ pc' = "error"
            /\ UNCHANGED <<n_projects, m_resources, current_line>>
       ELSE LET hdr == lines[current_line + 1]
            IN  IF Len(hdr) # 3
                   \/ (parser = "parse_instance"
                          /\ ~(IntOk(hdr[1]) /\ IntOk(hdr[2])))
                THEN /\ pc' = "error"
                     /\ UNCHANGED <<n_projects, m_resources, current_line>>
                ELSE /\ n_projects' = IF parser = "read_instances"
                                      THEN IntOfFloat(hdr[1]) ELSE IntOf(hdr[1])
                     /\ m_resources' = IF parser = "read_instances"
                                       THEN IntOfFloat(hdr[2]) ELSE IntOf(hdr[2])
                     /\ current_line' = current_line + 1
                     /\ pc' = "profits"
    /\ gains' = <<>>
    /\ resources_consumed' = <<>>
    /\ UNCHANGED <<parseState, remaining, instances>>

\* ---- the profits; read_instances alone checks len(gains) != n_projects ----
ReadProfits ==
    /\ pc = "profits"
    /\ LET r == ReadField(current_line, n_projects, "float")
       IN  IF ~r.ok \/ (parser = "read_instances" /\ Len(r.acc) # n_projects)
           THEN /\ pc' = "error"
                /\ UNCHANGED <<gains, current_line>>
           ELSE /\ gains' = r.acc
                /\ current_line' = r.cl
                /\ pc' = "rows"
    /\ UNCHANGED <<parseState, n_projects, m_resources, remaining,
                   resources_consumed, instances>>

\* ---- one iteration of "for _ in range(m_resources)": one resource row ----
ReadRow ==
    /\ pc = "rows"
    /\ Len(resources_consumed) < m_resources
    /\ LET r == ReadField(current_line, n_projects, "int")
       IN  IF ~r.ok
           THEN /\ pc' = "error"
                /\ UNCHANGED <<resources_consumed, current_line>>
           ELSE /\ resources_consumed' = Append(resources_consumed, r.acc)
                /\ current_line' = r.cl
                /\ pc' = "rows"
    /\ UNCHANGED <<parseState, n_projects, m_resources, remaining, gains,
                   instances>>

\* ---- the capacities, then instances.append(instance) ----
\* read_instances reads exactly one line; parse_instance extends it while
\* it has fewer than m_resources entries
ReadCapacities ==
    /\ pc = "rows"
    /\ Len(resources_consumed) = m_resources
    /\ LET r == IF parser = "read_instances" THEN ReadLine(current_line, "int")
                ELSE ReadField(current_line, m_resources, "int")
       IN  IF ~r.ok
           THEN /\ pc' = "error"
                /\ UNCHANGED <<instances, current_line, remaining>>
           ELSE /\ instances' = Append(instances,
                        [n_projects |-> n_projects,
                         m_resources |-> m_resources,
                         gains |-> gains,
                         resources_consumed |-> resources_consumed,
                         resources_available |-> r.acc])
                /\ current_line' = r.cl
                /\ remaining' = remaining - 1
                /\ pc' = IF remaining = 1 THEN "done" ELSE "header"
    /\ UNCHANGED <<parseState, n_projects, m_resources, gains,
                   resources_consumed>>

NextParse ==
    \/ ReadCount
    \/ ReadHeader
    \/ ReadProfits
    \/ ReadRow
    \/ ReadCapacities

SpecParse == InitParse /\ [][NextParse]_vars

(***************************************************************************)
(* Properties of the repair loops.  They are stated on the instance data   *)
(* directly (Load, LiveLess), not through the operators of the model.      *)
(***************************************************************************)
RECURSIVE Load(_, _, _)
\* sum over j < k of weights[i][j] * sol[j]
Load(sol, i, k) ==
    IF k = 0 THEN 0 ELSE weights[i][k - 1] * sol[k - 1] + Load(sol, i, k - 1)

Satisfies(sol) ==
    \A i \in Resources(m_resources) : Load(sol, i, n_projects) <= capacities[i]

RECURSIVE Footprint(_, _)
\* sum over i < k of weights[i][j]
Footprint(j, k) ==
    IF k = 0 THEN 0 ELSE weights[k - 1][j] + Footprint(j, k - 1)

Total(j) == Footprint(j, m_resources)

\* live_ratio[a] < live_ratio[b], the ratio of a zero-footprint project being 0
LiveLess(a, b) ==
    LET na == IF Total(a) = 0 THEN 0 ELSE profits[a]
        da == IF Total(a) = 0 THEN 1 ELSE Total(a)
        nb == IF Total(b) = 0 THEN 0 ELSE profits[b]
        db == IF Total(b) = 0 THEN 1 ELSE Total(b)
    IN  na * db < nb * da

Selected(sol) == {j \in Projects(n_projects) : sol[j] = 1}

\* the projects whose entry an iteration changed from 1 to 0
Removed == {j \in Projects(n_projects) : solution[j] = 1 /\ solution'[j] = 0}

\* a loop iteration was executed
LoopIteration == iters' = iters + 1

\* C1: the selection returned by repair (either policy) satisfies every
\* resource constraint: sum_j weights[i][j]*solution[j] <= capacities[i].
C1_FeasibleAfterRepair ==
    pc = "done" =>
        \A i \in Resources(m_resources) :
            Load(solution, i, n_projects) <= capacities[i]

C1_Witness ==
    /\ pc = "done"
    /\ policy = "B"
    /\ iters >= 2
    /\ m_resources >= 2
    /\ ~Satisfies(input)

\* C2: both repair loops terminate normally within n_projects iterations:
\* no error state (empty candidate list, rank order indexed past its end),
\* never more than n_projects iterations, and the loop is never stuck.
C2_TerminatesWithinN ==
    /\ pc # "error"
    /\ iters <= n_projects
    /\ (pc = "done" \/ ENABLED Next)

C2_Witness ==
    /\ pc = "done"
    /\ policy = "A"
    /\ n_projects >= 3
    /\ iters = n_projects

\* C3: on an input that already satisfies every constraint, repair returns
\* the input entry by entry, without executing a loop iteration.
C3_Idempotent ==
    (pc = "done" /\ Satisfies(input)) => (solution = input /\ iters = 0)

C3_Witness ==
    /\ pc = "done"
    /\ Satisfies(input)
    /\ Cardinality(Selected(input)) >= 2
    /\ \E i \in Resources(m_resources) :
           Load(input, i, n_projects) = capacities[i]

\* C5: monotonic shrink: after every loop iteration the consumption vector
\* is component-wise <= the consumption vector before it.
C5_MonotonicShrink ==
    [][\A i \in Resources(m_resources) :
           Load(solution', i, n_projects) <= Load(solution, i, n_projects)]_vars

C5_Witness ==
    /\ iters >= 2
    /\ policy = "B"
    /\ \E i \in Resources(m_resources) :
           Load(solution, i, n_projects) < Load(input, i, n_projects)
    /\ \E i \in Resources(m_resources) :
           Load(solution, i, n_projects) = Load(input, i, n_projects)

\* the selected projects that consume no resource at all
ZeroFootprint(sol) == {j \in Selected(sol) : Total(j) = 0}

\* C6 (as claimed): in repair_solution, while a zero-footprint project is
\* selected, no selected project that consumes a resource is deselected.
C6_ZeroFootprintBeforeAnyConsumer ==
    [][(policy = "A" /\ LoopIteration /\ ZeroFootprint(solution) # {})
          => Removed \subseteq ZeroFootprint(solution)]_vars

\* C6 (amended): in repair_solution a zero-footprint project has live ratio
\* 0, so while one is selected the project deselected is never a consumer
\* with positive profit: it is the lowest-index selected project among the
\* zero-footprint projects and the consumers of profit 0.
C6_ZeroFootprintAmended ==
    [][(policy = "A" /\ LoopIteration /\ ZeroFootprint(solution) # {})
          => \E r \in Selected(solution) :
                /\ Removed = {r}
                /\ (Total(r) = 0 \/ profits[r] = 0)
                /\ \A k \in Selected(solution) :
                      (Total(k) = 0 \/ profits[k] = 0) => r <= k]_vars

\* a zero-footprint project with positive profit was deselected while a
\* consumer with positive profit and a lower index stayed selected
C6_Witness ==
    /\ policy = "A"
    /\ iters >= 1
    /\ \E z, c \in Projects(n_projects) :
          /\ c < z
          /\ Total(z) = 0 /\ profits[z] > 0
          /\ input[z] = 1 /\ solution[z] = 0
          /\ Total(c) > 0 /\ profits[c] > 0
          /\ solution[c] = 1

\* C8 (as claimed): every loop iteration, in both policies, changes exactly
\* one entry of the selection, from 1 to 0.
C8_ExactlyOneDeselected ==
    [][LoopIteration =>
          \E r \in Projects(n_projects) :
              /\ solution[r] = 1
              /\ solution' = [solution EXCEPT ![r] = 0]]_vars

\* position of project j in the rank order (0 = best)
Pos(j) == CHOOSE p \in Projects(n_projects) : sorted_idx[p] = j

\* sel with its k lowest-ranked selected projects deselected
DropLowest(sel, k) ==
    [j \in Projects(n_projects) |->
        IF sel[j] = 1
           /\ Cardinality({q \in Selected(sel) : Pos(q) > Pos(j)}) < k
        THEN 0 ELSE sel[j]]

\* the smallest k for which DropLowest(sel, k) satisfies every constraint
MinDrop(sel) ==
    CHOOSE k \in 0 .. n_projects :
        /\ Satisfies(DropLowest(sel, k))
        /\ \A l \in 0 .. (k - 1) : ~Satisfies(DropLowest(sel, l))

\* C9: repair_heuristic returns the input with exactly its k lowest-ranked
\* selected projects deselected, k the smallest number that makes it
\* feasible; before that the selection is the input with fewer than k of
\* them deselected, so no project ranked above those k is ever deselected.
C9_PolicyBResult ==
    policy = "B" =>
        /\ \E c \in 0 .. MinDrop(input) : solution = DropLowest(input, c)
        /\ pc = "done" => solution = DropLowest(input, MinDrop(input))

\* a project was deselected after an already deselected, lower-ranked entry
\* was skipped, and a better-ranked selected project was kept
C9_Witness ==
    /\ policy = "B"
    /\ pc = "done"
    /\ MinDrop(input) >= 1
    /\ \E kept, gone, skipped \in Projects(n_projects) :
          /\ Pos(kept) < Pos(gone) /\ Pos(gone) < Pos(skipped)
          /\ input[skipped] = 0
          /\ input[gone] = 1 /\ solution[gone] = 0
          /\ solution[kept] = 1

\* C10: each iteration of repair_solution deselects one currently selected
\* project whose live ratio is minimal among the selected projects, the
\* lowest index among those of minimal ratio.
C10_PolicyAStep ==
    [][(policy = "A" /\ LoopIteration) =>
          \E r \in Selected(solution) :
              /\ solution' = [solution EXCEPT ![r] = 0]
              /\ \A k \in Selected(solution) :
                    /\ ~LiveLess(k, r)
                    /\ (k < r => LiveLess(r, k))]_vars

\* a project was deselected although a lower-index project of strictly
\* larger ratio and a higher-index project of equal ratio were selected
C10_Witness ==
    /\ policy = "A"
    /\ iters = 1
    /\ \E r, a, b \in Projects(n_projects) :
          /\ a < r /\ r < b
          /\ input[r] = 1 /\ solution[r] = 0
          /\ solution[a] = 1 /\ solution[b] = 1
          /\ LiveLess(r, a)
          /\ ~LiveLess(r, b) /\ ~LiveLess(b, r)
          /\ Total(r) # Total(b)

\* C7 (as claimed): in the rank order returned by glouton_heuristic a
\* project of surrogate weight 0 is ranked with ratio 0, so it comes after
\* every project with a strictly positive ratio.
C7_ZeroWeightRankedLast ==
    pc \in {"fill", "done"} =>
        \A z, q \in Projects(n_projects) :
            (Total(z) = 0 /\ Total(q) > 0 /\ profits[q] > 0)
                => Pos(q) < Pos(z)

\* C4 (as claimed): an instance returned by read_instances or parse_instance
\* has exactly n_projects profits, m_resources rows of exactly n_projects
\* entries each, and exactly m_resources capacities.
C4_ParsedCountsMatch ==
    pc = "done" =>
        \A k \in 1 .. Len(instances) :
            LET inst == instances[k]
            IN  /\ Len(inst.gains) = inst.n_projects
                /\ Len(inst.resources_consumed) = inst.m_resources
                /\ \A r \in 1 .. Len(inst.resources_consumed) :
                       Len(inst.resources_consumed[r]) = inst.n_projects
                /\ Len(inst.resources_available) = inst.m_resources

====
